---- MODULE Spec2Model ----
(***************************************************************************)
(* Model of ray.train.backends.horovod (HorovodConfig, init_env_vars,      *)
(* HorovodBackend.on_start) and of the control flow of the documentation   *)
(* example doc/source/data/_examples/big_data_ingestion.py.                *)
(*                                                                         *)
(* Ranks are 0-based as in the source; the sequence `workers` is 1-based,  *)
(* so the worker of rank r is workers[r + 1].  Python dicts are functions  *)
(* whose domain is the set of keys; os.environ of the worker of rank r is  *)
(* environ[r].  The calls on_start makes to the Coordinator and to the     *)
(* worker group are appended to `calls` in the order they are made.        *)
(***************************************************************************)
EXTENDS Integers, Sequences, FiniteSets, TLC

\* ---------------------------------------------------------------- bounds
MaxWorkers == 2

\* ------------------------------------------------- values of the inputs
\* worker metadata the worker group can hold (node id, hostname)
Metadata ==
    { [node_id |-> "node-a", hostname |-> "host-a"],
      [node_id |-> "node-b", hostname |-> "host-b"] }

\* HorovodConfig arguments; the empty set stands for nics=None
ConfigArgs == { [nics |-> {}, verbose |-> 1], [nics |-> {"eth0"}, verbose |-> 2] }

\* exceptions the calls to the external libraries can raise
Exceptions == { "RuntimeError", "TimeoutError" }

\* error ray.get raises for a task that failed on its worker
TaskErrors == { "RayTaskError" }

\* per-rank environment deltas finalize_registration can return
CrossEnvs ==
    { [HOROVOD_LOCAL_RANK |-> "0", HOROVOD_CROSS_RANK |-> "1"],
      [HOROVOD_LOCAL_RANK |-> "1", HOROVOD_CROSS_RANK |-> "0"] }

\* environments establish_rendezvous can return
RendezvousEnvs ==
    { [HOROVOD_GLOO_RENDEZVOUS_ADDR |-> "10.0.0.1", HOROVOD_GLOO_IFACE |-> "lo"],
      [HOROVOD_GLOO_RENDEZVOUS_ADDR |-> "10.0.0.1", HOROVOD_SIZE |-> "9"] }

\* interface sets detect_nics can return
NicSets == { {"eth0"}, {"eth0", "eth1"} }

\* ------------------------------------------------------ python helpers
EmptyEnv == [k \in {} |-> ""]

\* str(n)
Str(n) == ToString(n)

\* dict.update: the keys of b are added to a, b winning on a shared key
DictUpdate(a, b) ==
    [k \in (DOMAIN a) \cup (DOMAIN b) |-> IF k \in DOMAIN b THEN b[k] ELSE a[k]]

\* the assignments init_env_vars makes to os.environ
InitEnvVars(world_rank, world_size, node_id) ==
    [HOROVOD_HOSTNAME |-> node_id,
     HOROVOD_RANK |-> Str(world_rank),
     HOROVOD_SIZE |-> Str(world_size)]

\* ray.train.utils.update_env_vars: os.environ.update(env_vars)
UpdateEnvVars(env, env_vars) == DictUpdate(env, env_vars)

\* nics_to_env_var: the values the library can derive from a set of NICs
NicsToEnvVar(nics) ==
    { [HOROVOD_GLOO_IFACE |-> n,
       NCCL_SOCKET_IFNAME |-> IF Cardinality(nics) = 1 THEN n ELSE "eth0,eth1"] :
      n \in nics }

VARIABLES
    runner_import,     \* "from horovod.ray.runner import Coordinator" succeeded
    utils_import,      \* "from horovod.ray.utils import ..." succeeded
    config,            \* the HorovodConfig being constructed
    workers,           \* worker_group.workers: sequence of metadata
    pc,                \* position of on_start
    rank,              \* loop variable of the current loop of on_start
    environ,           \* os.environ of each worker, by rank
    tasks,             \* every remote task dispatched, in dispatch order
    setup_futures,     \* indices into tasks of the futures being collected
    coordinator,       \* self.coordinator
    all_info,          \* items of the dict finalize_registration returned
    coordinator_envs,  \* dict returned by establish_rendezvous, then updated
    nics,              \* set returned by detect_nics
    calls,             \* calls made by on_start, in order
    thrown,            \* exception raised inside a step of on_start
    raised,            \* exception that left on_start
    argv,              \* command line of the example script
    args,              \* parsed arguments of the example script
    spc,               \* position of the example script
    ray_init,          \* ray.init calls of the example script
    training_workers,  \* number of TrainingWorker actors created
    trained,           \* ranks whose train() task has completed
    runs               \* ingestion runs completed by the script

backendVars ==
    << runner_import, utils_import, config, workers, pc, rank, environ, tasks,
       setup_futures, coordinator, all_info, coordinator_envs, nics, calls,
       thrown, raised >>

scriptVars == << argv, args, spc, ray_init, training_workers, trained, runs >>

vars == << backendVars, scriptVars >>

\* state other than the position and the one thing each step changes
N == Len(workers)
Ranks == 0 .. (N - 1)

\* Coordinator is None: either import of the try block failed
CoordinatorIsNone == ~(runner_import /\ utils_import)

NoCoordinator == [constructed |-> FALSE, settings |-> [nics |-> {}, verbose |-> 0],
                  registered |-> <<>>, finalized |-> FALSE, rendezvous |-> FALSE]


NoError == [step |-> "none", exc |-> "none"]

\* one entry of the call log
Call(op, fn, r, hostname, node_id, env) ==
    [op |-> op, fn |-> fn, rank |-> r, hostname |-> hostname,
     node_id |-> node_id, env |-> env]

\* one remote task: function fn run on the worker of rank `worker`
Task(via, worker, fn, world_rank, world_size, node_id, env) ==
    [via |-> via, worker |-> worker, fn |-> fn, world_rank |-> world_rank,
     world_size |-> world_size, node_id |-> node_id, env |-> env,
     status |-> "pending", exc |-> "none"]

\* worker_group.execute_single_async(rank, func, *args): one task, on worker rank
ExecuteSingleAsync(worker, fn, world_rank, world_size, node_id, env) ==
    Task("execute_single_async", worker, fn, world_rank, world_size, node_id, env)

\* worker_group.execute_async(func, *args): one task on every worker, in order
ExecuteAsync(fn, env) ==
    [i \in 1 .. N |-> Task("execute", i - 1, fn, -1, -1, "", env)]

\* node_ids and hostnames of on_start, and enumerate(zip(hostnames, node_ids))
node_ids == [i \in 1 .. N |-> workers[i].node_id]
hostnames == [i \in 1 .. N |-> workers[i].hostname]
Registrations ==
    [i \in 1 .. N |-> [hostname |-> hostnames[i], node_id |-> node_ids[i], rank |-> i - 1]]

\* the dicts finalize_registration can return for the registered ranks, as the
\* sequence of their items: at most one item per rank, in the order the ranks
\* were registered
OrderedDicts ==
    { s \in UNION { [1 .. k -> [rank : Ranks, env : CrossEnvs]] : k \in 0 .. N } :
        \A i, j \in DOMAIN s : i < j => s[i].rank < s[j].rank }

\* variant: the futures are not waited for
RayGetReturns_M(futs) == TRUE

\* ray.get(futures) returns once every future holds a value
RayGetReturns(futs) == \A i \in futs : tasks[i].status = "done"

\* ray.get(futures) raises the error of a failed future
RayGetRaises(futs) == { i \in futs : tasks[i].status = "failed" }

\* on_start has no try/except: the exception leaves it as it was raised
Propagate(e) == e

Range(s) == { s[i] : i \in DOMAIN s }

\* futures collected by worker_group.execute
ExecuteFutures == { i \in DOMAIN tasks : tasks[i].via = "execute" }

\* the statement order of on_start: the step that follows step p
Follows_C3(p) ==
    CASE p = "idle" -> "seed_loop"
      [] p = "seed_loop" -> "seed_get"
      [] p = "seed_get" -> "construct"
      [] p = "construct" -> "register_loop"
      [] p = "register_loop" -> "finalize"
      [] p = "finalize" -> "cross_loop"
      [] p = "cross_loop" -> "cross_get"
      [] p = "cross_get" -> "execute"
      [] p = "rendezvous" -> "detect_nics"
      [] p = "detect_nics" -> "update_envs"
      [] p = "update_envs" -> "execute"
      [] p = "execute" -> "execute_get"
      [] p = "execute_get" -> "done"

Follows_C5(p) ==
    CASE p = "idle" -> "seed_loop"
      [] p = "seed_loop" -> "seed_get"
      [] p = "seed_get" -> "construct"
      [] p = "construct" -> "register_loop"
      [] p = "register_loop" -> "finalize"
      [] p = "finalize" -> "cross_loop"
      [] p = "cross_loop" -> "cross_get"
      [] p = "cross_get" -> "detect_nics"
      [] p = "detect_nics" -> "rendezvous"
      [] p = "rendezvous" -> "update_envs"
      [] p = "update_envs" -> "execute"
      [] p = "execute" -> "execute_get"
      [] p = "execute_get" -> "done"

Follows(p) ==
    CASE p = "idle" -> "seed_loop"
      [] p = "seed_loop" -> "seed_get"
      [] p = "seed_get" -> "construct"
      [] p = "construct" -> "register_loop"
      [] p = "register_loop" -> "finalize"
      [] p = "finalize" -> "cross_loop"
      [] p = "cross_loop" -> "cross_get"
      [] p = "cross_get" -> "rendezvous"
      [] p = "rendezvous" -> "detect_nics"
      [] p = "detect_nics" -> "update_envs"
      [] p = "update_envs" -> "execute"
      [] p = "execute" -> "execute_get"
      [] p = "execute_get" -> "done"

\* ------------------------------------------------------------ HorovodConfig
\* variant: the guard tests only the first import
PostInitRaises_M == ~runner_import

PostInitRaises == CoordinatorIsNone

PostInit(n, v) ==
    /\ config.state = "new"
    /\ config' = [state |-> IF PostInitRaises THEN "ValueError" ELSE "ok",
                  nics |-> n, verbose |-> v]
    /\ UNCHANGED << runner_import, utils_import, workers, pc, rank, environ,
                    tasks, setup_futures, coordinator, all_info,
                    coordinator_envs, nics, calls, thrown, raised >>
    /\ UNCHANGED scriptVars

\* ------------------------------------------------------------ worker side
\* what a task does to os.environ of the worker it runs on
RunFn(t, env) ==
    IF t.fn = "init_env_vars"
    THEN DictUpdate(env, InitEnvVars(t.world_rank, t.world_size, t.node_id))
    ELSE UpdateEnvVars(env, t.env)

RunTask(i) ==
    /\ tasks[i].status = "pending"
    /\ environ' = [environ EXCEPT ![tasks[i].worker] = RunFn(tasks[i], @)]
    /\ tasks' = [tasks EXCEPT ![i].status = "done"]
    /\ UNCHANGED << runner_import, utils_import, config, workers, pc, rank,
                    setup_futures, coordinator, all_info, coordinator_envs,
                    nics, calls, thrown, raised >>
    /\ UNCHANGED scriptVars

FailTask(i, e) ==
    /\ tasks[i].status = "pending"
    /\ tasks' = [tasks EXCEPT ![i].status = "failed", ![i].exc = e]
    /\ UNCHANGED << runner_import, utils_import, config, workers, pc, rank,
                    environ, setup_futures, coordinator, all_info,
                    coordinator_envs, nics, calls, thrown, raised >>
    /\ UNCHANGED scriptVars

\* ------------------------------------------------------------ on_start
\* variant: the exception is swallowed and the step is tried again
Raise_M(step, e) ==
    /\ thrown' = [step |-> step, exc |-> e]
    /\ raised' = raised
    /\ pc' = pc

\* a step of on_start raises e: on_start is left with that exception
Raise(step, e) ==
    /\ thrown' = [step |-> step, exc |-> e]
    /\ raised' = Propagate(e)
    /\ pc' = "raised"

OnStart ==
    /\ pc = "idle"
    /\ config.state = "ok"
    /\ pc' = Follows(pc)
    /\ rank' = 0
    /\ setup_futures' = <<>>
    /\ UNCHANGED << runner_import, utils_import, config, workers, environ,
                    tasks, coordinator, all_info, coordinator_envs, nics,
                    calls, thrown, raised >>
    /\ UNCHANGED scriptVars

\* next state of the first loop
SeedNext(r) == IF r + 1 < N THEN "seed_loop" ELSE Follows("seed_loop")

\* variant: the hostname is passed in place of the node id
SeedTask_M(r) ==
    ExecuteSingleAsync(r, "init_env_vars", r, N, workers[r + 1].hostname, EmptyEnv)

\* the task the first loop dispatches for rank r
SeedTask(r) ==
    ExecuteSingleAsync(r, "init_env_vars", r, N, workers[r + 1].node_id, EmptyEnv)

SeedDispatch ==
    /\ pc = "seed_loop"
    /\ rank < N
    /\ tasks' = Append(tasks, SeedTask(rank))
    /\ setup_futures' = Append(setup_futures, Len(tasks) + 1)
    /\ calls' = Append(calls, Call("execute_single_async", "init_env_vars",
                                   rank, "", workers[rank + 1].node_id, EmptyEnv))
    /\ rank' = rank + 1
    /\ pc' = SeedNext(rank)
    /\ UNCHANGED << runner_import, utils_import, config, workers, environ,
                    coordinator, all_info, coordinator_envs, nics, thrown,
                    raised >>
    /\ UNCHANGED scriptVars

SeedGet ==
    /\ pc = "seed_get"
    /\ RayGetReturns(Range(setup_futures))
    /\ calls' = Append(calls, Call("ray.get", "init_env_vars", -1, "", "", EmptyEnv))
    /\ pc' = Follows(pc)
    /\ UNCHANGED << runner_import, utils_import, config, workers, rank,
                    environ, tasks, setup_futures, coordinator, all_info,
                    coordinator_envs, nics, thrown, raised >>
    /\ UNCHANGED scriptVars

SeedGetRaise ==
    /\ pc = "seed_get"
    /\ \E i \in RayGetRaises(Range(setup_futures)) : Raise("ray.get", tasks[i].exc)
    /\ UNCHANGED << runner_import, utils_import, config, workers, rank,
                    environ, tasks, setup_futures, coordinator, all_info,
                    coordinator_envs, nics, calls >>
    /\ UNCHANGED scriptVars

Construct ==
    /\ pc = "construct"
    /\ coordinator' = [NoCoordinator EXCEPT !.constructed = TRUE,
                          !.settings = [nics |-> config.nics, verbose |-> config.verbose]]
    /\ calls' = Append(calls, Call("Coordinator", "", -1, "", "", EmptyEnv))
    /\ pc' = Follows(pc)
    /\ rank' = 0
    /\ UNCHANGED << runner_import, utils_import, config, workers, environ,
                    tasks, setup_futures, all_info, coordinator_envs, nics,
                    thrown, raised >>
    /\ UNCHANGED scriptVars

ConstructRaise(e) ==
    /\ pc = "construct"
    /\ Raise("Coordinator", e)
    /\ UNCHANGED << runner_import, utils_import, config, workers, rank,
                    environ, tasks, setup_futures, coordinator, all_info,
                    coordinator_envs, nics, calls >>
    /\ UNCHANGED scriptVars


\* next state of the registration loop
RegisterNext(r) == IF r + 1 < N THEN "register_loop" ELSE Follows("register_loop")

\* variant: the hostnames are taken in the reverse order
RegisterArgs_M(r) ==
    [hostname |-> hostnames[N - r], node_id |-> node_ids[r + 1], rank |-> r]

\* the arguments of the register call of iteration r of the loop
RegisterArgs(r) == Registrations[r + 1]

Register ==
    /\ pc = "register_loop"
    /\ rank < N
    /\ coordinator' = [coordinator EXCEPT
                          !.registered = Append(@, RegisterArgs(rank))]
    /\ calls' = Append(calls, Call("register", "", RegisterArgs(rank).rank,
                                   RegisterArgs(rank).hostname,
                                   RegisterArgs(rank).node_id, EmptyEnv))
    /\ rank' = rank + 1
    /\ pc' = RegisterNext(rank)
    /\ UNCHANGED << runner_import, utils_import, config, workers, environ,
                    tasks, setup_futures, all_info, coordinator_envs, nics,
                    thrown, raised >>
    /\ UNCHANGED scriptVars

RegisterRaise(e) ==
    /\ pc = "register_loop"
    /\ rank < N
    /\ Raise("register", e)
    /\ UNCHANGED << runner_import, utils_import, config, workers, rank,
                    environ, tasks, setup_futures, coordinator, all_info,
                    coordinator_envs, nics, calls >>
    /\ UNCHANGED scriptVars

\* next state after finalize_registration returned info
FinalizeNext(info) ==
    IF Len(info) = 0 THEN Follows("cross_loop") ELSE Follows("finalize")

FinalizeRegistration ==
    /\ pc = "finalize"
    /\ \E info \in OrderedDicts :
          /\ all_info' = info
          /\ pc' = FinalizeNext(info)
    /\ coordinator' = [coordinator EXCEPT !.finalized = TRUE]
    /\ calls' = Append(calls, Call("finalize_registration", "", -1, "", "", EmptyEnv))
    /\ rank' = 0
    /\ setup_futures' = <<>>
    /\ UNCHANGED << runner_import, utils_import, config, workers, environ,
                    tasks, coordinator_envs, nics, thrown, raised >>
    /\ UNCHANGED scriptVars

FinalizeRaise(e) ==
    /\ pc = "finalize"
    /\ Raise("finalize_registration", e)
    /\ UNCHANGED << runner_import, utils_import, config, workers, rank,
                    environ, tasks, setup_futures, coordinator, all_info,
                    coordinator_envs, nics, calls >>
    /\ UNCHANGED scriptVars

\* next state of the loop over all_info.items(); k items have been visited
CrossNext(k) ==
    IF k + 1 < Len(all_info) THEN "cross_loop" ELSE Follows("cross_loop")

\* variant: the item is sent to the worker after the one it is meant for
CrossTask_M(item) ==
    ExecuteSingleAsync((item.rank + 1) % N, "update_env_vars", -1, -1, "", item.env)

\* the task the loop dispatches for an item (rank, local_cross_env_var)
CrossTask(item) ==
    ExecuteSingleAsync(item.rank, "update_env_vars", -1, -1, "", item.env)

\* in this loop `rank` counts the items of all_info visited so far
CrossDispatch ==
    /\ pc = "cross_loop"
    /\ rank < Len(all_info)
    /\ tasks' = Append(tasks, CrossTask(all_info[rank + 1]))
    /\ setup_futures' = Append(setup_futures, Len(tasks) + 1)
    /\ calls' = Append(calls, Call("execute_single_async", "update_env_vars",
                                   CrossTask(all_info[rank + 1]).worker, "", "",
                                   CrossTask(all_info[rank + 1]).env))
    /\ rank' = rank + 1
    /\ pc' = CrossNext(rank)
    /\ UNCHANGED << runner_import, utils_import, config, workers, environ,
                    coordinator, all_info, coordinator_envs, nics, thrown,
                    raised >>
    /\ UNCHANGED scriptVars

CrossGet ==
    /\ pc = "cross_get"
    /\ RayGetReturns(Range(setup_futures))
    /\ calls' = Append(calls, Call("ray.get", "update_env_vars", -1, "", "", EmptyEnv))
    /\ pc' = Follows(pc)
    /\ UNCHANGED << runner_import, utils_import, config, workers, rank,
                    environ, tasks, setup_futures, coordinator, all_info,
                    coordinator_envs, nics, thrown, raised >>
    /\ UNCHANGED scriptVars

CrossGetRaise ==
    /\ pc = "cross_get"
    /\ \E i \in RayGetRaises(Range(setup_futures)) : Raise("ray.get", tasks[i].exc)
    /\ UNCHANGED << runner_import, utils_import, config, workers, rank,
                    environ, tasks, setup_futures, coordinator, all_info,
                    coordinator_envs, nics, calls >>
    /\ UNCHANGED scriptVars

EstablishRendezvous ==
    /\ pc = "rendezvous"
    /\ \E env \in RendezvousEnvs :
          /\ coordinator_envs' = env
          /\ calls' = Append(calls, Call("establish_rendezvous", "", -1, "", "", env))
    /\ coordinator' = [coordinator EXCEPT !.rendezvous = TRUE]
    /\ pc' = Follows(pc)
    /\ UNCHANGED << runner_import, utils_import, config, workers, rank,
                    environ, tasks, setup_futures, all_info, nics, thrown,
                    raised >>
    /\ UNCHANGED scriptVars

RendezvousRaise(e) ==
    /\ pc = "rendezvous"
    /\ Raise("establish_rendezvous", e)
    /\ UNCHANGED << runner_import, utils_import, config, workers, rank,
                    environ, tasks, setup_futures, coordinator, all_info,
                    coordinator_envs, nics, calls >>
    /\ UNCHANGED scriptVars

DetectNics ==
    /\ pc = "detect_nics"
    /\ \E s \in NicSets : nics' = s
    /\ calls' = Append(calls, Call("detect_nics", "", -1, "", "", EmptyEnv))
    /\ pc' = Follows(pc)
    /\ UNCHANGED << runner_import, utils_import, config, workers, rank,
                    environ, tasks, setup_futures, coordinator, all_info,
                    coordinator_envs, thrown, raised >>
    /\ UNCHANGED scriptVars

DetectNicsRaise(e) ==
    /\ pc = "detect_nics"
    /\ Raise("detect_nics", e)
    /\ UNCHANGED << runner_import, utils_import, config, workers, rank,
                    environ, tasks, setup_futures, coordinator, all_info,
                    coordinator_envs, nics, calls >>
    /\ UNCHANGED scriptVars

\* variant: the update is made the other way round
FinalEnvs_M(envs, nic_envs) == DictUpdate(nic_envs, envs)

\* coordinator_envs.update(nics_to_env_var(nics))
FinalEnvs(envs, nic_envs) == DictUpdate(envs, nic_envs)

UpdateEnvs ==
    /\ pc = "update_envs"
    /\ \E nic_envs \in NicsToEnvVar(nics) :
          /\ coordinator_envs' = FinalEnvs(coordinator_envs, nic_envs)
          /\ calls' = Append(calls, Call("nics_to_env_var", "", -1, "", "", nic_envs))
    /\ pc' = Follows(pc)
    /\ UNCHANGED << runner_import, utils_import, config, workers, rank,
                    environ, tasks, setup_futures, coordinator, all_info,
                    nics, thrown, raised >>
    /\ UNCHANGED scriptVars

\* worker_group.execute(update_env_vars, coordinator_envs): dispatch ...
Execute ==
    /\ pc = "execute"
    /\ tasks' = tasks \o ExecuteAsync("update_env_vars", coordinator_envs)
    /\ calls' = Append(calls, Call("execute", "update_env_vars", -1, "", "",
                                   coordinator_envs))
    /\ pc' = Follows(pc)
    /\ UNCHANGED << runner_import, utils_import, config, workers, rank,
                    environ, setup_futures, coordinator, all_info,
                    coordinator_envs, nics, thrown, raised >>
    /\ UNCHANGED scriptVars

\* ... and wait for every worker
ExecuteGet ==
    /\ pc = "execute_get"
    /\ RayGetReturns(ExecuteFutures)
    /\ pc' = Follows(pc)
    /\ UNCHANGED << runner_import, utils_import, config, workers, rank,
                    environ, tasks, setup_futures, coordinator, all_info,
                    coordinator_envs, nics, calls, thrown, raised >>
    /\ UNCHANGED scriptVars

ExecuteGetRaise ==
    /\ pc = "execute_get"
    /\ \E i \in RayGetRaises(ExecuteFutures) : Raise("execute", tasks[i].exc)
    /\ UNCHANGED << runner_import, utils_import, config, workers, rank,
                    environ, tasks, setup_futures, coordinator, all_info,
                    coordinator_envs, nics, calls >>
    /\ UNCHANGED scriptVars

\* ------------------------------------------------------------ example script
NUM_TRAINING_WORKERS_SMALL == 4
NUM_TRAINING_WORKERS_LARGE == 16

\* parser.parse_known_args(): the store_true flag; unknown arguments are ignored
ParseKnownArgs(av) == [large_scale_test |-> "--large-scale-test" \in av]

\* the guards of the two top-level blocks
RunSmall == ~args.large_scale_test

\* variant: the second block is not guarded
RunLarge_M == TRUE

RunLarge == args.large_scale_test

\* .split(num_shards, equal=True) returns num_shards shards, one worker each
SplitShards(num_shards) == num_shards

ParseArgs ==
    /\ spc = "parse"
    /\ args' = ParseKnownArgs(argv)
    /\ spc' = "small_if"
    /\ UNCHANGED << argv, ray_init, training_workers, trained, runs >>
    /\ UNCHANGED backendVars

\* the small block up to the dispatch of the train() tasks
SmallStart ==
    /\ spc = "small_if"
    /\ RunSmall
    /\ ray_init' = Append(ray_init, "None")
    /\ training_workers' = SplitShards(NUM_TRAINING_WORKERS_SMALL)
    /\ trained' = {}
    /\ spc' = "small_get"
    /\ UNCHANGED << argv, args, runs >>
    /\ UNCHANGED backendVars

SmallSkip ==
    /\ spc = "small_if"
    /\ ~RunSmall
    /\ spc' = "large_if"
    /\ UNCHANGED << argv, args, ray_init, training_workers, trained, runs >>
    /\ UNCHANGED backendVars

\* TrainingWorker.train of the worker of rank w runs to completion
Train(w) ==
    /\ spc \in { "small_get", "large_get" }
    /\ w \in (0 .. (training_workers - 1)) \ trained
    /\ trained' = trained \cup { w }
    /\ UNCHANGED << argv, args, spc, ray_init, training_workers, runs >>
    /\ UNCHANGED backendVars

\* the record of a completed ingestion run
Run(name) ==
    [run |-> name, address |-> ray_init[Len(ray_init)], workers |-> training_workers]

SmallGet ==
    /\ spc = "small_get"
    /\ trained = 0 .. (training_workers - 1)
    /\ runs' = Append(runs, Run("small"))
    /\ spc' = "large_if"
    /\ UNCHANGED << argv, args, ray_init, training_workers, trained >>
    /\ UNCHANGED backendVars

\* the large block up to the dispatch of the train() tasks
LargeStart ==
    /\ spc = "large_if"
    /\ RunLarge
    /\ ray_init' = Append(ray_init, "auto")
    /\ training_workers' = SplitShards(NUM_TRAINING_WORKERS_LARGE)
    /\ trained' = {}
    /\ spc' = "large_get"
    /\ UNCHANGED << argv, args, runs >>
    /\ UNCHANGED backendVars

LargeSkip ==
    /\ spc = "large_if"
    /\ ~RunLarge
    /\ spc' = "exit"
    /\ UNCHANGED << argv, args, ray_init, training_workers, trained, runs >>
    /\ UNCHANGED backendVars

LargeGet ==
    /\ spc = "large_get"
    /\ trained = 0 .. (training_workers - 1)
    /\ runs' = Append(runs, Run("large"))
    /\ spc' = "exit"
    /\ UNCHANGED << argv, args, ray_init, training_workers, trained >>
    /\ UNCHANGED backendVars

\* ------------------------------------------------------------ specification
InitScriptVars ==
    /\ args = [large_scale_test |-> FALSE]
    /\ spc = "parse"
    /\ ray_init = <<>>
    /\ training_workers = 0
    /\ trained = {}
    /\ runs = <<>>

InitBackendVars ==
    /\ config = [state |-> "new", nics |-> {}, verbose |-> 1]
    /\ pc = "idle"
    /\ rank = 0
    /\ tasks = <<>>
    /\ setup_futures = <<>>
    /\ coordinator = NoCoordinator
    /\ all_info = <<>>
    /\ coordinator_envs = EmptyEnv
    /\ nics = {}
    /\ calls = <<>>
    /\ thrown = NoError
    /\ raised = "none"

Init ==
    /\ runner_import \in BOOLEAN
    /\ utils_import \in BOOLEAN
    /\ workers \in UNION { [1 .. n -> Metadata] : n \in 1 .. MaxWorkers }
    /\ environ = [r \in 0 .. (Len(workers) - 1) |-> EmptyEnv]
    /\ InitBackendVars
    /\ argv = {}
    /\ InitScriptVars

Next ==
    \/ \E a \in ConfigArgs : PostInit(a.nics, a.verbose)
    \/ OnStart
    \/ SeedDispatch
    \/ \E i \in DOMAIN tasks : RunTask(i)
    \/ \E i \in DOMAIN tasks, e \in TaskErrors : FailTask(i, e)
    \/ SeedGet
    \/ SeedGetRaise
    \/ Construct
    \/ \E e \in Exceptions : ConstructRaise(e)
    \/ Register
    \/ \E e \in Exceptions : RegisterRaise(e)
    \/ FinalizeRegistration
    \/ \E e \in Exceptions : FinalizeRaise(e)
    \/ CrossDispatch
    \/ CrossGet
    \/ CrossGetRaise
    \/ EstablishRendezvous
    \/ \E e \in Exceptions : RendezvousRaise(e)
    \/ DetectNics
    \/ \E e \in Exceptions : DetectNicsRaise(e)
    \/ UpdateEnvs
    \/ Execute
    \/ ExecuteGet
    \/ ExecuteGetRaise

Spec == Init /\ [][Next]_vars

TypeOK == pc \in { "idle", "seed_loop", "seed_get", "construct", "register_loop",
                   "finalize", "cross_loop", "cross_get", "rendezvous",
                   "detect_nics", "update_envs", "execute", "execute_get",
                   "done", "raised" }


\* the example script alone, started with any command line
InitScript ==
    /\ runner_import = TRUE
    /\ utils_import = TRUE
    /\ workers = << [node_id |-> "node-a", hostname |-> "host-a"] >>
    /\ environ = [r \in 0 .. 0 |-> EmptyEnv]
    /\ InitBackendVars
    /\ argv \in SUBSET { "--large-scale-test", "--verbose" }
    /\ InitScriptVars

NextScript ==
    \/ ParseArgs
    \/ SmallStart
    \/ SmallSkip
    \/ \E w \in 0 .. (NUM_TRAINING_WORKERS_LARGE - 1) : Train(w)
    \/ SmallGet
    \/ LargeStart
    \/ LargeSkip
    \/ LargeGet

SpecScript == InitScript /\ [][NextScript]_vars


\* ------------------------------------------------------------ properties
\* calls of one operation, in the order they were made
CallsOf(op) == SelectSeq(calls, LAMBDA c : c.op = op)

\* positions in the call log of the calls of one operation
IndexOf(op) == { i \in DOMAIN calls : calls[i].op = op }

\* C1: constructing a HorovodConfig raises ValueError exactly when one of the
\* imports of the try block failed (Coordinator is None); with both imports
\* present it succeeds and keeps whatever nics and verbose it was given.
C1_ConfigGuard ==
    config.state # "new" =>
        /\ (config.state = "ValueError") <=> ~(runner_import /\ utils_import)
        /\ (runner_import /\ utils_import) => config.state = "ok"

C1_Witness ==
    /\ config.state = "ValueError"
    /\ runner_import
    /\ ~utils_import

\* the registration loop of on_start has run to its end
RegistrationOver ==
    /\ coordinator.constructed
    /\ pc # "register_loop"
    /\ thrown.step # "register"

\* C2: register is called once per worker, the k-th call carrying rank k and
\* the hostname and node id of the k-th worker; when the loop is over there
\* are exactly N calls.
C2_RegisterPerWorker ==
    LET rc == CallsOf("register") IN
    /\ Len(rc) <= N
    /\ \A k \in DOMAIN rc :
          /\ rc[k].rank = k - 1
          /\ rc[k].hostname = workers[k].hostname
          /\ rc[k].node_id = workers[k].node_id
    /\ RegistrationOver => Len(rc) = N

C2_Witness ==
    /\ RegistrationOver
    /\ N = 2
    /\ workers[1] # workers[2]
    /\ Len(CallsOf("register")) = 2

\* C3: the final propagation (worker_group.execute) is called, and a worker
\* holds a task of it, only after establish_rendezvous and detect_nics returned.
C3_FinalAfterRendezvousAndNics ==
    /\ \A i \in IndexOf("execute") :
          /\ \E j \in IndexOf("establish_rendezvous") : j < i
          /\ \E j \in IndexOf("detect_nics") : j < i
    /\ ExecuteFutures # {} =>
          /\ IndexOf("execute") # {}
          /\ coordinator.rendezvous
          /\ nics # {}

C3_Witness ==
    /\ ExecuteFutures # {}
    /\ \E i \in ExecuteFutures : tasks[i].status = "done"

\* tasks of the first and of the second phase
SeedTasks == { i \in DOMAIN tasks : tasks[i].fn = "init_env_vars" }
CrossTasks ==
    { i \in DOMAIN tasks :
        tasks[i].fn = "update_env_vars" /\ tasks[i].via = "execute_single_async" }

\* C4: the coordinator is constructed, and a host registered, only when every
\* init_env_vars task has completed; establish_rendezvous is called only when
\* every per-rank update_env_vars task has completed.
C4_PhaseBarrier ==
    /\ (coordinator.constructed \/ IndexOf("Coordinator") # {}
          \/ IndexOf("register") # {}) =>
          /\ Cardinality(SeedTasks) = N
          /\ \A i \in SeedTasks : tasks[i].status = "done"
    /\ (coordinator.rendezvous \/ IndexOf("establish_rendezvous") # {}) =>
          /\ Cardinality(CrossTasks) = Len(all_info)
          /\ \A i \in CrossTasks : tasks[i].status = "done"

C4_Witness ==
    /\ coordinator.rendezvous
    /\ N = 2
    /\ Len(all_info) = 2

\* n copies of x
Rep(x, n) == [i \in 1 .. n |-> x]

\* the calls of a complete handshake, all_info being what finalize returned
Handshake ==
    Rep("execute_single_async", N) \o << "ray.get", "Coordinator" >>
      \o Rep("register", N) \o << "finalize_registration" >>
      \o Rep("execute_single_async", Len(all_info))
      \o << "ray.get", "establish_rendezvous", "detect_nics",
            "nics_to_env_var", "execute" >>

\* C5: the calls on_start has made are always a prefix of the one fixed
\* handshake order, and a run that completes has made all of them, once each.
C5_FixedOrder ==
    /\ Len(calls) <= Len(Handshake)
    /\ \A i \in DOMAIN calls : calls[i].op = Handshake[i]
    /\ pc = "done" => Len(calls) = Len(Handshake)

C5_Witness ==
    /\ pc = "done"
    /\ N = 2
    /\ Len(all_info) = 1

\* C6: when a step raises, on_start is left at once with that very exception,
\* and from then on it makes no call, dispatches no task and changes neither
\* the coordinator nor the exception.
C6_FailurePropagates ==
    [][ /\ thrown' # NoError =>
              /\ pc' = "raised"
              /\ raised' = thrown'.exc
              /\ raised' \in Exceptions \cup TaskErrors
        /\ thrown # NoError =>
              /\ pc' = pc
              /\ thrown' = thrown
              /\ raised' = raised
              /\ calls' = calls
              /\ Len(tasks') = Len(tasks)
              /\ coordinator' = coordinator ]_vars

C6_Witness ==
    /\ pc = "raised"
    /\ thrown.step = "establish_rendezvous"
    /\ raised = "TimeoutError"
    /\ \E i \in DOMAIN tasks : tasks[i].status = "done"

\* C7: the script completes exactly one ingestion run: the small one
\* (ray.init() without address, 4 workers) without --large-scale-test, the
\* large one (address "auto", 16 workers) with it; never two, never none.
C7_ExactlyOneRun ==
    /\ Len(runs) <= 1
    /\ Len(ray_init) <= 1
    /\ spc \in { "small_get", "large_if" } /\ "--large-scale-test" \notin argv =>
          /\ ray_init = << "None" >>
          /\ training_workers = 4
    /\ spc = "large_get" =>
          /\ "--large-scale-test" \in argv
          /\ ray_init = << "auto" >>
          /\ training_workers = 16
    /\ spc = "exit" =>
          runs = IF "--large-scale-test" \in argv
                 THEN << [run |-> "large", address |-> "auto", workers |-> 16] >>
                 ELSE << [run |-> "small", address |-> "None", workers |-> 4] >>

C7_Witness ==
    /\ spc = "exit"
    /\ "--large-scale-test" \in argv
    /\ Len(runs) = 1
    /\ Cardinality(trained) = 16

\* C8: when the first phase is over, the worker of every rank r has
\* HOROVOD_RANK = str(r), HOROVOD_SIZE = str(N) and HOROVOD_HOSTNAME = the node
\* id of worker r, the ranks being pairwise distinct, whatever order the
\* init_env_vars tasks ran in.
C8_SeededEnv ==
    pc = "construct" =>
        /\ \A r \in Ranks :
              /\ DOMAIN environ[r] =
                    { "HOROVOD_RANK", "HOROVOD_SIZE", "HOROVOD_HOSTNAME" }
              /\ environ[r].HOROVOD_RANK = ToString(r)
              /\ environ[r].HOROVOD_SIZE = ToString(N)
              /\ environ[r].HOROVOD_HOSTNAME = workers[r + 1].node_id
        /\ \A r1, r2 \in Ranks :
              r1 # r2 => environ[r1].HOROVOD_RANK # environ[r2].HOROVOD_RANK
        /\ { environ[r].HOROVOD_RANK : r \in Ranks } = { ToString(r) : r \in Ranks }

C8_Witness ==
    /\ pc = "construct"
    /\ N = 2
    /\ workers[1].node_id # workers[2].node_id

\* the loop over all_info.items() has run to its end
CrossDispatched == coordinator.finalized /\ pc # "cross_loop"

\* C9: every per-rank update request goes to the worker whose rank is its key
\* and carries the delta mapped to that key, at most once per worker; when the
\* loop is over every key has its request, and a worker that is not a key has
\* none.
C9_DeltasOneToOne ==
    /\ \A i \in CrossTasks :
          \E k \in DOMAIN all_info :
              /\ all_info[k].rank = tasks[i].worker
              /\ all_info[k].env = tasks[i].env
    /\ \A r \in Ranks :
          Cardinality({ i \in CrossTasks : tasks[i].worker = r }) <= 1
    /\ CrossDispatched =>
          \A r \in Ranks :
              Cardinality({ i \in CrossTasks : tasks[i].worker = r })
                = Cardinality({ k \in DOMAIN all_info : all_info[k].rank = r })

C9_Witness ==
    /\ CrossDispatched
    /\ N = 2
    /\ Len(all_info) = 1
    /\ all_info[1].rank = 1
    /\ pc = "done"

\* what establish_rendezvous and nics_to_env_var returned in this run
RendezvousReturn == CallsOf("establish_rendezvous")[1].env
NicsReturn == CallsOf("nics_to_env_var")[1].env

\* the delta sent to rank r in the second phase, if any
CrossDelta(r) ==
    IF \E k \in DOMAIN all_info : all_info[k].rank = r
    THEN (CHOOSE item \in Range(all_info) : item.rank = r).env
    ELSE EmptyEnv

\* C10: the final propagation sends one task to every worker, all carrying
\* the same mapping: what establish_rendezvous returned, with the NIC
\* variables added and winning on a shared key.  When it is over every worker
\* holds that mapping, and every variable seeded before and not in the mapping
\* has the value it had.
C10_FinalEnv ==
    /\ ExecuteFutures # {} =>
          /\ \A r \in Ranks :
                Cardinality({ i \in ExecuteFutures : tasks[i].worker = r }) = 1
          /\ \A i \in ExecuteFutures :
                /\ DOMAIN tasks[i].env = DOMAIN RendezvousReturn \cup DOMAIN NicsReturn
                /\ \A k \in DOMAIN NicsReturn : tasks[i].env[k] = NicsReturn[k]
                /\ \A k \in DOMAIN RendezvousReturn \ DOMAIN NicsReturn :
                      tasks[i].env[k] = RendezvousReturn[k]
    /\ pc = "done" =>
          \A r \in Ranks :
              LET final == tasks[CHOOSE i \in ExecuteFutures : TRUE].env
                  delta == CrossDelta(r)
              IN  /\ \A k \in DOMAIN final : environ[r][k] = final[k]
                  /\ \A k \in DOMAIN delta \ DOMAIN final :
                        environ[r][k] = delta[k]
                  /\ "HOROVOD_RANK" \notin DOMAIN final =>
                        environ[r].HOROVOD_RANK = ToString(r)
                  /\ "HOROVOD_SIZE" \notin DOMAIN final =>
                        environ[r].HOROVOD_SIZE = ToString(N)
                  /\ "HOROVOD_HOSTNAME" \notin DOMAIN final =>
                        environ[r].HOROVOD_HOSTNAME = workers[r + 1].node_id

C10_Witness ==
    /\ pc = "done"
    /\ N = 2
    /\ "HOROVOD_GLOO_IFACE" \in DOMAIN RendezvousReturn
    /\ RendezvousReturn.HOROVOD_GLOO_IFACE # NicsReturn.HOROVOD_GLOO_IFACE
    /\ Len(all_info) = 2

====
